---- MODULE Spec2Model ----
(***************************************************************************)
(* A model of ramr/home-controller: the SSDP discovery scanner             *)
(* (discover.py), the Belkin Wemo device client (wemo_device.py) and the   *)
(* registry bridge of the command line interface (cli.py).                 *)
(*                                                                         *)
(* Text is modelled as a sequence of tokens.  A token is one character, or *)
(* an opaque block of characters that holds no white space, no line break  *)
(* and none of the characters the code looks for.  Python's None is the    *)
(* token sequence PyNone.                                                  *)
(***************************************************************************)
EXTENDS Naturals, Sequences, FiniteSets, TLC

VARIABLES
    scanPc,      \* discover(): "idle", "call", "recv", "returned", "raised"
    received,    \* the datagrams recvfrom() has delivered to this scan
    devices,     \* discover(): the local list `devices`
    scanErr,     \* the exception discover() raised, "none" otherwise
    handle,      \* the WemoDevice under use (NoHandle before construction)
    plug,        \* the device's own binary state, "1" or "0"
    ret,         \* the outcome of the last public WemoDevice call
    sent,        \* the body of the last SOAP request put on the wire
    requests,    \* the number of HTTP requests sent to the control endpoint
    file,        \* the content of config/registry.json (NoFile when missing)
    pc,          \* the position of the command line run in cli.py
    attempt,     \* which _load_registered_devices call runs: 1 (line 118), 2 (line 125)
    registry,    \* _load_registered_devices: the list _load_registry returned
    idx,         \* _load_registered_devices: the index of the record in hand
    regDevices,  \* _load_registered_devices: the dict `devices`, tag -> handle
    built,       \* the handles constructed by the load in hand, in order
    log,         \* the calls of this run, in order: "scan" (discover), "write"
                 \* (the registry file written), "load" (_load_registered_devices),
                 \* "caught" (the handler of line 121 entered)
    caught,      \* the exception the handler of line 121 caught, NoException before
    failure      \* the exception that left the run, NoException otherwise

scanVars == <<scanPc, received, devices, scanErr>>
devVars == <<handle, plug, ret, sent, requests>>
cliVars == <<file, pc, attempt, registry, idx, regDevices, built, log, caught, failure>>
vars == <<scanVars, devVars, cliVars>>

----------------------------------------------------------------------------
(* Bounds of the model.                                                    *)

MaxDatagrams == 2
MaxCalls == 3

----------------------------------------------------------------------------
(* Text helpers: what the Python string methods and the regular            *)
(* expressions of the source do, on token sequences.                       *)

PyNone == <<"<None>">>

CRLF == "\r\n"

WhiteSpace == {" ", "\t", "\n", "\r"}

UpperCase == <<"A", "B", "C", "D", "E", "F", "G", "H", "I", "J", "K", "L", "M",
               "N", "O", "P", "Q", "R", "S", "T", "U", "V", "W", "X", "Y", "Z">>

LowerCase == <<"a", "b", "c", "d", "e", "f", "g", "h", "i", "j", "k", "l", "m",
               "n", "o", "p", "q", "r", "s", "t", "u", "v", "w", "x", "y", "z">>

LowerChar(c) ==
    IF \E i \in DOMAIN UpperCase : UpperCase[i] = c
    THEN LowerCase[CHOOSE i \in DOMAIN UpperCase : UpperCase[i] = c]
    ELSE c

\* str.lower()
Lower(s) == [i \in DOMAIN s |-> LowerChar(s[i])]

\* str.strip()
RECURSIVE LStrip(_)
LStrip(s) ==
    IF s # <<>> /\ Head(s) \in WhiteSpace THEN LStrip(Tail(s)) ELSE s

RECURSIVE RStrip(_)
RStrip(s) ==
    IF s # <<>> /\ s[Len(s)] \in WhiteSpace
    THEN RStrip(SubSeq(s, 1, Len(s) - 1))
    ELSE s

Strip(s) == RStrip(LStrip(s))

\* The text of a token sequence as one string.
RECURSIVE Join(_)
Join(s) == IF s = <<>> THEN "" ELSE Head(s) \o Join(Tail(s))

\* str.split("\r\n")
RECURSIVE SplitLines(_, _, _)
SplitLines(toks, cur, acc) ==
    IF toks = <<>> THEN Append(acc, cur)
    ELSE IF Head(toks) = CRLF
         THEN SplitLines(Tail(toks), <<>>, Append(acc, cur))
         ELSE SplitLines(Tail(toks), Append(cur, Head(toks)), acc)

Split(toks) == SplitLines(toks, <<>>, <<>>)

----------------------------------------------------------------------------
(* discover.py: the SSDP scan.                                             *)

BadByte == "0xFF"
DecodeError == <<"UnicodeDecodeError">>

\* bytes.decode("utf-8"), line 55
Decode(data) ==
    IF \E i \in DOMAIN data : data[i] = BadByte THEN DecodeError ELSE data

LocationHeader == <<"l", "o", "c", "a", "t", "i", "o", "n", ":">>

RECURSIVE SkipSpace(_, _)
SkipSpace(aline, i) ==
    IF i < Len(aline) /\ aline[i + 1] \in WhiteSpace
    THEN SkipSpace(aline, i + 1)
    ELSE i

\* re.match(r'(?i)Location:\s*', aline), line 56: whether the line matches
\* and, when it does, matcher.end()
Matcher(aline) ==
    IF Len(aline) >= Len(LocationHeader)
        /\ Lower(SubSeq(aline, 1, Len(LocationHeader))) = LocationHeader
    THEN [matched |-> TRUE, end |-> SkipSpace(aline, Len(LocationHeader))]
    ELSE [matched |-> FALSE, end |-> 0]

\* The loop of lines 54-58 over the lines from index i on, `location` in hand.
RECURSIVE LocationLoop(_, _, _)
LocationLoop(lines, i, location) ==
    IF i > Len(lines) THEN location
    ELSE LET aline == lines[i]
             matcher == Matcher(aline)
         IN  IF matcher.matched
             THEN LocationLoop(lines, i + 1,
                               Strip(SubSeq(aline, matcher.end + 1, Len(aline))))
             ELSE LocationLoop(lines, i + 1, location)

\* Lines 54-58: the location a decoded datagram yields.
Location(text) == Join(LocationLoop(Split(text), 1, <<>>))

\* Line 60
Info(addr, text) == [host |-> addr, uri |-> Location(text)]

\* A scan that keeps one record of equal replies.
CollectUnique(devs, info) ==
    IF \E i \in DOMAIN devs : devs[i] = info THEN devs ELSE Append(devs, info)

\* Line 62, devices.append(info)
Collect(devs, info) == Append(devs, info)

(* The replies a scan may receive. *)

Addr1 == "10.0.0.5"
ALEXA_IP == "192.168.1.173"

UriPlug1 == "http://10.0.0.5:49153/setup.xml"
UriPlug2 == "http://10.0.0.6:49153/setup.xml"
UriBadPort == "http://10.0.0.5:port/setup.xml"
UriNoScheme == "10.0.0.5/setup.xml"

StatusLine == <<"HTTP/1.1", " ", "200", " ", "OK">>
SearchTarget == <<"S", "T", ":", " ", "upnp:rootdevice">>

PlainReply(u) ==
    StatusLine \o <<CRLF>>
        \o <<"L", "O", "C", "A", "T", "I", "O", "N", ":", " ", u>>
        \o <<CRLF, CRLF>>

PaddedReply(u) ==
    StatusLine \o <<CRLF>>
        \o <<"l", "o", "c", "a", "t", "i", "o", "n", ":", "\t", " ", u, " ">>
        \o <<CRLF>> \o SearchTarget \o <<CRLF, CRLF>>

TwoLocationReply(u1, u2) ==
    StatusLine \o <<CRLF>>
        \o <<"L", "o", "c", "a", "t", "i", "o", "n", ":", " ", u1>> \o <<CRLF>>
        \o <<"L", "o", "c", "a", "t", "i", "o", "n", ":", " ", u2>>
        \o <<CRLF, CRLF>>

NoLocationReply == StatusLine \o <<CRLF>> \o SearchTarget \o <<CRLF, CRLF>>

OtherHeaderReply(u) ==
    StatusLine \o <<CRLF>>
        \o <<"X", "-", "L", "o", "c", "a", "t", "i", "o", "n", ":", " ", u>>
        \o <<CRLF, CRLF>>

EmptyLocationReply ==
    StatusLine \o <<CRLF>>
        \o <<"L", "o", "c", "a", "t", "i", "o", "n", ":">> \o <<CRLF, CRLF>>

BareLfReply(u) ==
    StatusLine \o <<"\n">>
        \o <<"L", "o", "c", "a", "t", "i", "o", "n", ":", " ", u>> \o <<"\n">>

GarbledReply == <<BadByte>>

Payloads ==
    { PlainReply(UriPlug1), PaddedReply(UriPlug2),
      TwoLocationReply(UriPlug1, UriPlug2), NoLocationReply,
      OtherHeaderReply(UriPlug1), EmptyLocationReply, BareLfReply(UriPlug1),
      GarbledReply }

SourceAddrs == { <<Addr1, "1900">>, <<ALEXA_IP, "1900">> }

Datagrams == [addr : SourceAddrs, data : Payloads]

\* An exception: its class and the call that raised it; for one raised by
\* the construction of a device, the description URI of the record.
Exception(exc, at, uri) == [exc |-> exc, at |-> at, uri |-> uri]

NoException == Exception("none", "none", "<n/a>")

NoScanError == [exc |-> "none", at |-> "none"]

\* Lines 38-47: the socket is made and the M-SEARCH request sent.
ScanStart ==
    /\ scanPc = "call"
    /\ scanPc' = "recv"
    /\ devices' = <<>>
    /\ received' = <<>>
    /\ scanErr' = NoScanError
    /\ log' = Append(log, "scan")
    /\ UNCHANGED <<devVars, file, pc, attempt, registry, idx, regDevices, built,
                   caught, failure>>

\* Lines 39-45: socket() or sendto() fails; nothing in discover() catches it.
ScanSendFails ==
    /\ scanPc = "call"
    /\ scanPc' = "raised"
    /\ devices' = <<>>
    /\ received' = <<>>
    /\ scanErr' = [exc |-> "OSError", at |-> "sendto"]
    /\ log' = Append(log, "scan")
    /\ UNCHANGED <<devVars, file, pc, attempt, registry, idx, regDevices, built,
                   caught, failure>>

\* A receive loop that stops at the first reply: the datagram is recorded
\* and discover() returns.
ScanRecvOnce(d) ==
    /\ scanPc = "recv"
    /\ Len(received) < MaxDatagrams
    /\ received' = Append(received, d)
    /\ LET text == Decode(d.data)
       IN  IF text = DecodeError
           THEN /\ scanPc' = "raised"
                /\ scanErr' = [exc |-> "UnicodeDecodeError", at |-> "decode"]
                /\ UNCHANGED devices
           ELSE /\ devices' = Collect(devices, Info(d.addr[1], text))
                /\ scanPc' = "returned"
                /\ UNCHANGED scanErr
    /\ UNCHANGED <<devVars, cliVars>>

\* Lines 51-62: recvfrom() delivers datagram d, which becomes one record;
\* a datagram that is not UTF-8 makes decode() raise out of discover().
ScanRecv(d) ==
    /\ scanPc = "recv"
    /\ Len(received) < MaxDatagrams
    /\ received' = Append(received, d)
    /\ LET text == Decode(d.data)
       IN  IF text = DecodeError
           THEN /\ scanPc' = "raised"
                /\ scanErr' = [exc |-> "UnicodeDecodeError", at |-> "decode"]
                /\ UNCHANGED devices
           ELSE /\ devices' = Collect(devices, Info(d.addr[1], text))
                /\ UNCHANGED <<scanPc, scanErr>>
    /\ UNCHANGED <<devVars, cliVars>>

\* A receive loop without the handler of line 64: the timeout of recvfrom()
\* leaves discover() as any other exception does.
ScanTimeoutRaises ==
    /\ scanPc = "recv"
    /\ scanPc' = "raised"
    /\ scanErr' = [exc |-> "timeout", at |-> "recvfrom"]
    /\ UNCHANGED <<received, devices, devVars, cliVars>>

\* Lines 64-67: recvfrom() times out; discover() returns `devices`.
ScanTimeout ==
    /\ scanPc = "recv"
    /\ scanPc' = "returned"
    /\ UNCHANGED <<received, devices, scanErr, devVars, cliVars>>

\* Line 51: recvfrom() fails with a socket error that is no timeout; the
\* handler of line 64 names socket.timeout only, so the error leaves discover().
ScanSocketError ==
    /\ scanPc = "recv"
    /\ scanPc' = "raised"
    /\ scanErr' = [exc |-> "OSError", at |-> "recvfrom"]
    /\ UNCHANGED <<received, devices, devVars, cliVars>>

----------------------------------------------------------------------------
(* wemo_device.py: XML documents and their parsing.                        *)
(* An element is [tag, text, kids]; the bytes of an HTTP body are          *)
(* [wellformed, root]: ElementTree.fromstring() yields root when the body  *)
(* is well-formed XML and raises ParseError otherwise.                     *)

STATE_ON == <<"ON">>
STATE_OFF == <<"OFF">>
STATE_UNKNOWN == <<"UNKNOWN">>

DEVICE_NODE_TAG == "device"
SERVICE_LIST_NODE_TAG == "serviceList"
SERVICES_TAG == "services"
DATA_DICT_NAME_KEY == "friendlyName"
DEVICE_UNKNOWN ==
    <<"U", "n", "k", "n", "o", "w", "n", " ", "D", "e", "v", "i", "c", "e">>
CONTROL_URI_PATH == "upnp/control/basicevent1"

SoapNs == "http://schemas.xmlsoap.org/soap/envelope/"
BelkinNs == "urn:Belkin:service:basicevent:1"
DeviceNs == "urn:Belkin:device-1-0"

Qualified(ns, local) == <<"{", ns, "}", local>>

RESPONSE_BODY_PATH == Qualified(SoapNs, "Body")
WEMO_GET_STATE_PATH == Qualified(BelkinNs, "GetBinaryStateResponse")
WEMO_SET_STATE_PATH == Qualified(BelkinNs, "SetBinaryStateResponse")

Element(tag, text, kids) == [tag |-> tag, text |-> text, kids |-> kids]

\* The value None where an element is expected.
NoneElement == Element(PyNone, PyNone, <<>>)

MalformedXml == [wellformed |-> FALSE, root |-> NoneElement]
Xml(root) == [wellformed |-> TRUE, root |-> root]

\* _parse_xml, lines 67-78
ParseXml(data) == IF data.wellformed THEN data.root ELSE NoneElement

\* _tag, lines 91-93: re.sub(r'\{.*?\}', "", element.tag)
RECURSIVE DropThroughBrace(_)
DropThroughBrace(s) ==
    IF s = <<>> THEN <<>>
    ELSE IF Head(s) = "}" THEN Tail(s) ELSE DropThroughBrace(Tail(s))

RECURSIVE StripBraces(_)
StripBraces(s) ==
    IF s = <<>> THEN <<>>
    ELSE IF Head(s) = "{" /\ \E i \in DOMAIN s : s[i] = "}"
         THEN StripBraces(DropThroughBrace(s))
         ELSE <<Head(s)>> \o StripBraces(Tail(s))

ElementTag(element) == Join(StripBraces(element.tag))

\* A Python dict as a function; d[k] = v
EmptyDict == [k \in {} |-> PyNone]

\* d.setdefault(k, v): a key that is there keeps its value.
PutIfAbsent(d, k, v) == [x \in DOMAIN d \cup {k} |-> IF x \in DOMAIN d THEN d[x] ELSE v]

\* d[k] = v
Put(d, k, v) == [x \in DOMAIN d \cup {k} |-> IF x = k THEN v ELSE d[x]]

\* _get_service_info, lines 96-103
RECURSIVE ServiceInfoLoop(_, _)
ServiceInfoLoop(nodes, data) ==
    IF nodes = <<>> THEN data
    ELSE ServiceInfoLoop(Tail(nodes),
                         Put(data, ElementTag(Head(nodes)), Head(nodes).text))

GetServiceInfo(subtree) == ServiceInfoLoop(subtree.kids, EmptyDict)

\* _get_device_info, lines 106-116
RECURSIVE DeviceInfoLoop(_, _)
DeviceInfoLoop(nodes, info) ==
    IF nodes = <<>> THEN info
    ELSE LET node == Head(nodes)
             name == ElementTag(node)
         IN  IF name = SERVICE_LIST_NODE_TAG
             THEN DeviceInfoLoop(Tail(nodes),
                      Put(info, SERVICES_TAG,
                          [i \in DOMAIN node.kids |-> GetServiceInfo(node.kids[i])]))
             ELSE DeviceInfoLoop(Tail(nodes), Put(info, name, node.text))

GetDeviceInfo(device) == DeviceInfoLoop(device.kids, EmptyDict)

\* ElementTree's Element.find(path), lines 147 and 168: the first element,
\* in document order, that the path of tags leads to from root.
RECURSIVE FindAll(_, _)
FindAll(kids, path) ==
    IF kids = <<>> THEN <<>>
    ELSE LET c == Head(kids)
             here == IF c.tag # path[1] THEN <<>>
                     ELSE IF Len(path) = 1 THEN <<c>>
                     ELSE FindAll(c.kids, Tail(path))
         IN  here \o FindAll(Tail(kids), path)

Find(root, path) ==
    LET m == FindAll(root.kids, path)
    IN  IF m = <<>> THEN NoneElement ELSE m[1]

----------------------------------------------------------------------------
(* wemo_device.py: the outcomes of an HTTP exchange.                       *)
(* urlopen() raises (URLError for a refused or unreachable peer,           *)
(* TimeoutError for a timeout, HTTPError for a status that is no success)  *)
(* or delivers a body.                                                     *)

HttpFailure(exc) == [kind |-> "error", exc |-> exc, body |-> MalformedXml]
HttpBody(data) == [kind |-> "body", exc |-> "none", body |-> data]

HttpFailures ==
    { HttpFailure("URLError"), HttpFailure("TimeoutError"), HttpFailure("HTTPError") }

\* urllib.parse.urlparse, lines 187-188, on the description URIs of the model
UrlParse(yuri) ==
    CASE yuri = UriPlug1 ->
            [scheme |-> "http", hostname |-> "10.0.0.5", port |-> "49153"]
      [] yuri = UriPlug2 ->
            [scheme |-> "http", hostname |-> "10.0.0.6", port |-> "49153"]
      [] yuri = UriBadPort ->
            [scheme |-> "http", hostname |-> "10.0.0.5", port |-> "ValueError"]
      [] OTHER ->
            [scheme |-> "", hostname |-> "None", port |-> "None"]

\* The result of a call: the exception it raised ("none" when it returned)
\* and the value it returned.
Returned(v) == [exc |-> "none", value |-> v]
Raised(e, v) == [exc |-> e, value |-> v]

\* _get_device_xml, lines 81-88: Request() refuses a URI without a scheme,
\* urlopen() raises on failure; neither is caught here.
GetDeviceXml(uri, fetch) ==
    IF UrlParse(uri).scheme = "" THEN Raised("ValueError", NoneElement)
    ELSE IF fetch.kind = "error" THEN Raised(fetch.exc, NoneElement)
    ELSE Returned(ParseXml(fetch.body))

----------------------------------------------------------------------------
(* wemo_device.py: the SOAP requests.                                      *)

ACTION_GET == "urn:Belkin:service:basicevent:1#GetBinaryState"
ACTION_SET == "urn:Belkin:service:basicevent:1#SetBinaryState"

GET_BINARY_STATE_SOAP_REQUEST ==
    <<"<soap:Envelope>", "<soap:Body>", "<wemo:GetBinaryState>",
      "</wemo:GetBinaryState>", "</soap:Body>", "</soap:Envelope>">>

SET_BINARY_STATE_SOAP_REQUEST_TEMPLATE ==
    <<"<soap:Envelope>", "<soap:Body>", "<wemo:SetBinaryState>",
      "<BinaryState>", "${STATE}", "</BinaryState>",
      "</wemo:SetBinaryState>", "</soap:Body>", "</soap:Envelope>">>

\* string.Template.safe_substitute({"STATE": value}), line 159
SafeSubstitute(template, value) ==
    [i \in DOMAIN template |->
        IF template[i] = "${STATE}" THEN value ELSE template[i]]

\* Lines 158-159: the body of the set request for `state` (1 or 0)
SetRequestBody(state) ==
    SafeSubstitute(SET_BINARY_STATE_SOAP_REQUEST_TEMPLATE,
                   IF state # 0 THEN "1" ELSE "0")

\* _wemo_soap_request, lines 119-134: one POST; urlopen()'s exception is not
\* caught here, a body that is no XML parses to None.
WemoSoapRequest(uri, action, data, resp) ==
    IF resp.kind = "error" THEN Raised(resp.exc, NoneElement)
    ELSE Returned(ParseXml(resp.body))

BinaryStatePath(responseTag) ==
    <<RESPONSE_BODY_PATH, responseTag, <<"BinaryState">>>>

\* A lookup that takes the BinaryState of either response element.
FindAnyBinaryState(root, responseTag) ==
    LET hits == { t \in {WEMO_GET_STATE_PATH, WEMO_SET_STATE_PATH} :
                    Find(root, BinaryStatePath(t)) # NoneElement }
    IN  IF root = NoneElement \/ hits = {} THEN PyNone
        ELSE Find(root, BinaryStatePath(CHOOSE t \in hits : TRUE)).text

\* Lines 142-153 and 163-174: the text of the BinaryState element that root
\* holds under the response element of the action, None without one
BinaryStateText(root, responseTag) ==
    IF root = NoneElement THEN PyNone
    ELSE LET element == Find(root, BinaryStatePath(responseTag))
         IN  IF element # NoneElement THEN element.text ELSE PyNone

\* _get_device_state, lines 137-153
GetDeviceState(uri, resp) ==
    LET r == WemoSoapRequest(uri, ACTION_GET, GET_BINARY_STATE_SOAP_REQUEST, resp)
    IN  IF r.exc # "none" THEN Raised(r.exc, PyNone)
        ELSE Returned(BinaryStateText(r.value, WEMO_GET_STATE_PATH))

\* _set_device_state, lines 156-174
SetDeviceState(uri, state, resp) ==
    LET r == WemoSoapRequest(uri, ACTION_SET, SetRequestBody(state), resp)
    IN  IF r.exc # "none" THEN Raised(r.exc, PyNone)
        ELSE Returned(BinaryStateText(r.value, WEMO_SET_STATE_PATH))

----------------------------------------------------------------------------
(* wemo_device.py: class WemoDevice.  A handle is the record of the        *)
(* object's fields.                                                        *)

NoHandle ==
    [address |-> "<none>", uri |-> "<none>", control_uri |-> "<none>",
     data |-> EmptyDict]

\* _load, lines 257-267: the loop over the children of root
RECURSIVE LoadLoop(_, _)
LoadLoop(nodes, data) ==
    IF nodes = <<>> THEN data
    ELSE LoadLoop(Tail(nodes),
                  IF ElementTag(Head(nodes)) = DEVICE_NODE_TAG
                  THEN GetDeviceInfo(Head(nodes))
                  ELSE data)

\* _load, lines 257-267
Load(self, fetch) ==
    LET r == GetDeviceXml(self.uri, fetch)
    IN  IF r.exc # "none" THEN Raised(r.exc, self)
        ELSE IF r.value = NoneElement THEN Returned(self)
        ELSE Returned([self EXCEPT !.data = LoadLoop(r.value.kids, self.data)])

\* __init__, lines 180-191, under the outcome `fetch` of the description
\* fetch: the handle, or the exception that left the constructor.
WemoDevice(addr, yuri, fetch) ==
    LET earl == UrlParse(yuri)
    IN  IF earl.port = "ValueError" THEN Raised("ValueError", NoHandle)
        ELSE LET base_uri == earl.scheme \o "://" \o earl.hostname \o ":" \o earl.port
                 self == [address |-> addr, uri |-> yuri,
                          control_uri |-> base_uri \o "/" \o CONTROL_URI_PATH,
                          data |-> EmptyDict]
                 r == Load(self, fetch)
             IN  IF r.exc # "none" THEN Raised(r.exc, NoHandle) ELSE r

\* address(), lines 194-196
Address(self) == self.address

\* name(), lines 199-201
Name(self) ==
    IF DATA_DICT_NAME_KEY \in DOMAIN self.data
    THEN self.data[DATA_DICT_NAME_KEY]
    ELSE DEVICE_UNKNOWN

\* A mapping that trims the text before it compares it.
BinaryStateOfStripped(zstate) ==
    IF zstate # PyNone
    THEN IF Strip(zstate) = <<"1">> THEN STATE_ON
         ELSE IF Strip(zstate) = <<"0">> THEN STATE_OFF
         ELSE STATE_UNKNOWN
    ELSE STATE_UNKNOWN

\* state(), lines 215-222: the mapping of the text to a state
BinaryStateOf(zstate) ==
    IF zstate # PyNone
    THEN IF zstate = <<"1">> THEN STATE_ON
         ELSE IF zstate = <<"0">> THEN STATE_OFF
         ELSE STATE_UNKNOWN
    ELSE STATE_UNKNOWN

\* state(), lines 204-222
State(self, resp) ==
    LET r == GetDeviceState(self.control_uri, resp)
        zstate == IF r.exc # "none" THEN PyNone ELSE r.value
    IN  Returned(BinaryStateOf(zstate))

\* on(), lines 225-232
On(self, resp) == SetDeviceState(self.control_uri, 1, resp)

\* off(), lines 235-242
Off(self, resp) == SetDeviceState(self.control_uri, 0, resp)

----------------------------------------------------------------------------
(* The devices on the network: what a description fetch and a SOAP request *)
(* may be answered with.                                                   *)

LabPlug == <<"L", "a", "b", " ", "P", "l", "u", "g">>

DeviceElement(local, text, kids) == Element(Qualified(DeviceNs, local), text, kids)

ServiceList ==
    DeviceElement(SERVICE_LIST_NODE_TAG, PyNone,
        << DeviceElement("service", PyNone,
              << DeviceElement("serviceType", <<"urn:Belkin:service:basicevent:1">>, <<>>),
                 DeviceElement("controlURL", <<"/upnp/control/basicevent1">>, <<>>) >>) >>)

Description(deviceKids) ==
    Xml(DeviceElement("root", PyNone,
          << DeviceElement("specVersion", PyNone, <<>>),
             DeviceElement(DEVICE_NODE_TAG, PyNone, deviceKids) >>))

NamedDescription(name) ==
    Description(<< DeviceElement("deviceType", <<"urn:Belkin:device:controllee:1">>, <<>>),
                   DeviceElement(DATA_DICT_NAME_KEY, name, <<>>),
                   ServiceList >>)

UnnamedDescription ==
    Description(<< DeviceElement("modelName", <<"Socket">>, <<>>), ServiceList >>)

NoDeviceDescription ==
    Xml(DeviceElement("root", PyNone, << DeviceElement("specVersion", PyNone, <<>>) >>))

\* <friendlyName/>: the element is there and its text is None
EmptyNameDescription == NamedDescription(PyNone)

Descriptions ==
    { MalformedXml, NoDeviceDescription, UnnamedDescription, EmptyNameDescription,
      NamedDescription(LabPlug) }

FetchOutcomes == HttpFailures \cup { HttpBody(d) : d \in Descriptions }

DescriptionUris == { "", UriNoScheme, UriBadPort, UriPlug1, UriPlug2 }

Envelope(bodyTag, kids) ==
    Xml(Element(Qualified(SoapNs, "Envelope"), PyNone,
          << Element(bodyTag, PyNone, kids) >>))

\* A response element of the action with a BinaryState of the text
Answer(responseTag, text) ==
    Envelope(RESPONSE_BODY_PATH,
        << Element(responseTag, PyNone, << Element(<<"BinaryState">>, text, <<>>) >>) >>)

\* A response element of the action without a BinaryState element
AnswerWithoutState(responseTag) ==
    Envelope(RESPONSE_BODY_PATH,
        << Element(responseTag, PyNone, << Element(<<"CountdownEndTime">>, <<"0">>, <<>>) >>) >>)

\* A response whose Body carries no SOAP namespace
UnqualifiedAnswer(responseTag, text) ==
    Envelope(<<"Body">>,
        << Element(responseTag, PyNone, << Element(<<"BinaryState">>, text, <<>>) >>) >>)

StateTexts == { <<"1">>, <<"0">>, <<"8">>, <<" ", "1">>, <<"Error">>, PyNone }

ResponseTags == { WEMO_GET_STATE_PATH, WEMO_SET_STATE_PATH }

SoapBodies ==
    { MalformedXml }
        \cup { Answer(t, x) : t \in ResponseTags, x \in StateTexts }
        \cup { AnswerWithoutState(t) : t \in ResponseTags }
        \cup { UnqualifiedAnswer(t, <<"1">>) : t \in ResponseTags }

SoapOutcomes == HttpFailures \cup { HttpBody(b) : b \in SoapBodies }

----------------------------------------------------------------------------
(* A client of class WemoDevice: one construction, then any public calls.  *)

NoCall ==
    [op |-> "none", addr |-> "", uri |-> "", env |-> HttpFailure("none"),
     exc |-> "none", value |-> PyNone]

NoRequest == [uri |-> "", action |-> "", data |-> <<>>]

Call(op, addr, uri, env, r) ==
    [op |-> op, addr |-> addr, uri |-> uri, env |-> env,
     exc |-> r.exc, value |-> r.value]

\* WemoDevice(addr, yuri), the description fetch ending as `fetch`
Construct(addr, yuri, fetch) ==
    /\ handle = NoHandle
    /\ ret = NoCall
    /\ LET r == WemoDevice(addr, yuri, fetch)
       IN  /\ handle' = r.value
           /\ ret' = Call("new", addr, yuri, fetch, Raised(r.exc, PyNone))
    /\ UNCHANGED <<plug, sent, requests, scanVars, cliVars>>

\* device.name()
CallName ==
    /\ handle # NoHandle
    /\ ret' = Call("name", "", "", HttpFailure("none"), Returned(Name(handle)))
    /\ UNCHANGED <<handle, plug, sent, requests, scanVars, cliVars>>

\* A state() that keeps what the call before it returned: after a state()
\* that returned, the next one sends its request and answers from that value.
CallStateCached(resp) ==
    /\ handle # NoHandle
    /\ requests < MaxCalls
    /\ ret' = Call("state", "", "", resp,
                   IF ret.op = "state" /\ ret.exc = "none"
                   THEN Returned(ret.value)
                   ELSE State(handle, resp))
    /\ sent' = [uri |-> handle.control_uri, action |-> ACTION_GET,
                data |-> GET_BINARY_STATE_SOAP_REQUEST]
    /\ requests' = requests + 1
    /\ UNCHANGED <<handle, plug, scanVars, cliVars>>

\* device.state(), the request ending as `resp`
CallState(resp) ==
    /\ handle # NoHandle
    /\ requests < MaxCalls
    /\ ret' = Call("state", "", "", resp, State(handle, resp))
    /\ sent' = [uri |-> handle.control_uri, action |-> ACTION_GET,
                data |-> GET_BINARY_STATE_SOAP_REQUEST]
    /\ requests' = requests + 1
    /\ UNCHANGED <<handle, plug, scanVars, cliVars>>

\* The device's state after a set request for `wanted` that ended as `resp`:
\* a device that echoes the value has applied it, any other outcome leaves
\* open whether the request reached the device.
PlugAfterSet(wanted, resp) ==
    IF resp = HttpBody(Answer(WEMO_SET_STATE_PATH, wanted))
    THEN {wanted}
    ELSE {plug, wanted}

\* device.on(), the request ending as `resp`
CallOn(resp) ==
    /\ handle # NoHandle
    /\ requests < MaxCalls
    /\ ret' = Call("on", "", "", resp, On(handle, resp))
    /\ sent' = [uri |-> handle.control_uri, action |-> ACTION_SET,
                data |-> SetRequestBody(1)]
    /\ requests' = requests + 1
    /\ plug' \in PlugAfterSet(<<"1">>, resp)
    /\ UNCHANGED <<handle, scanVars, cliVars>>

\* An off() that tries again: a request that failed is sent a second time.
CallOffRetry(resp) ==
    /\ handle # NoHandle
    /\ requests < MaxCalls
    /\ ret' = Call("off", "", "", resp, Off(handle, resp))
    /\ sent' = [uri |-> handle.control_uri, action |-> ACTION_SET,
                data |-> SetRequestBody(0)]
    /\ requests' = IF resp \in HttpFailures THEN requests + 2 ELSE requests + 1
    /\ plug' \in PlugAfterSet(<<"0">>, resp)
    /\ UNCHANGED <<handle, scanVars, cliVars>>

\* device.off(), the request ending as `resp`
CallOff(resp) ==
    /\ handle # NoHandle
    /\ requests < MaxCalls
    /\ ret' = Call("off", "", "", resp, Off(handle, resp))
    /\ sent' = [uri |-> handle.control_uri, action |-> ACTION_SET,
                data |-> SetRequestBody(0)]
    /\ requests' = requests + 1
    /\ plug' \in PlugAfterSet(<<"0">>, resp)
    /\ UNCHANGED <<handle, scanVars, cliVars>>

\* Someone switches the device by hand.
PlugSwitched ==
    /\ handle # NoHandle
    /\ plug' = IF plug = <<"1">> THEN <<"0">> ELSE <<"1">>
    /\ UNCHANGED <<handle, ret, sent, requests, scanVars, cliVars>>

----------------------------------------------------------------------------
(* The specifications of the scanner and of the device client alone.       *)

\* The registry file: its text and whether this user may open it; NoFile
\* when there is no such file.
NoFile == [mode |-> "none", text |-> <<>>]

ScanIdle ==
    /\ scanPc = "idle"
    /\ received = <<>>
    /\ devices = <<>>
    /\ scanErr = NoScanError

DeviceIdle ==
    /\ handle = NoHandle
    /\ plug = <<"0">>
    /\ ret = NoCall
    /\ sent = NoRequest
    /\ requests = 0

CliIdle ==
    /\ file = NoFile
    /\ pc = "none"
    /\ attempt = 0
    /\ registry = <<>>
    /\ idx = 0
    /\ regDevices = EmptyDict
    /\ built = <<>>
    /\ log = <<>>
    /\ caught = NoException
    /\ failure = NoException

\* discover.py run as a program: _print_discovery_info, lines 70-74
InitScan ==
    /\ scanPc = "call"
    /\ received = <<>>
    /\ devices = <<>>
    /\ scanErr = NoScanError
    /\ DeviceIdle
    /\ CliIdle

NextScan ==
    \/ ScanStart
    \/ ScanSendFails
    \/ \E d \in Datagrams : ScanRecv(d)
    \/ ScanTimeout
    \/ ScanSocketError

SpecScan == InitScan /\ [][NextScan]_vars

\* Line 41, settimeout: no call of the scan blocks for ever, recvfrom() ends
\* within the timeout with a datagram, a timeout or an error.
SpecScanLive == SpecScan /\ WF_vars(NextScan)

InitDevice ==
    /\ ScanIdle
    /\ DeviceIdle
    /\ CliIdle

NextDevice ==
    \/ \E addr \in {Addr1, ALEXA_IP}, yuri \in DescriptionUris, fetch \in FetchOutcomes :
          Construct(addr, yuri, fetch)
    \/ CallName
    \/ \E resp \in SoapOutcomes : CallState(resp)
    \/ \E resp \in SoapOutcomes : CallOn(resp)
    \/ \E resp \in SoapOutcomes : CallOff(resp)
    \/ PlugSwitched

SpecDevice == InitDevice /\ [][NextDevice]_vars

----------------------------------------------------------------------------
(* cli.py: the registry file.  json.dumps() writes a list of objects as    *)
(* the tokens of its text; json.loads() reads such a text back or raises   *)
(* JSONDecodeError.                                                        *)

Structural == {"[", "]", "{", "}", ":", ","}

RECURSIVE DumpsLoop(_)
DumpsLoop(data) ==
    IF data = <<>> THEN <<>>
    ELSE <<"{", "host", ":", Head(data).host, ",", "uri", ":", Head(data).uri, "}">>
            \o (IF Tail(data) = <<>> THEN <<>> ELSE <<",">>)
            \o DumpsLoop(Tail(data))

\* json.dumps(data, indent=4), line 73
Dumps(data) == <<"[">> \o DumpsLoop(data) \o <<"]">>

JsonFail == [ok |-> FALSE, value |-> <<>>, next |-> 0]
JsonDone(v, next) == [ok |-> TRUE, value |-> v, next |-> next]

\* The members of an object, toks[i] the next key
RECURSIVE ParseMembers(_, _, _)
ParseMembers(toks, i, obj) ==
    IF \/ i + 3 > Len(toks)
       \/ toks[i] \in Structural
       \/ toks[i + 1] # ":"
       \/ toks[i + 2] \in Structural
    THEN JsonFail
    ELSE LET o == Put(obj, toks[i], toks[i + 2])
         IN  IF toks[i + 3] = "}" THEN JsonDone(o, i + 4)
             ELSE IF toks[i + 3] = "," THEN ParseMembers(toks, i + 4, o)
             ELSE JsonFail

\* An object, toks[i] its opening brace
ParseObject(toks, i) ==
    IF i + 1 > Len(toks) \/ toks[i] # "{" THEN JsonFail
    ELSE IF toks[i + 1] = "}" THEN JsonDone(EmptyDict, i + 2)
    ELSE ParseMembers(toks, i + 1, EmptyDict)

\* The elements of a list, toks[i] the start of the next one
RECURSIVE ParseElements(_, _, _)
ParseElements(toks, i, acc) ==
    LET o == ParseObject(toks, i)
    IN  IF ~o.ok \/ o.next > Len(toks) THEN JsonFail
        ELSE IF toks[o.next] = "]" THEN JsonDone(Append(acc, o.value), o.next + 1)
        ELSE IF toks[o.next] = ","
             THEN ParseElements(toks, o.next + 1, Append(acc, o.value))
        ELSE JsonFail

\* json.loads(text), line 82, of a text that holds a list of objects
Loads(toks) ==
    IF Len(toks) < 2 \/ toks[1] # "[" THEN JsonFail
    ELSE LET r == IF toks[2] = "]" THEN JsonDone(<<>>, 3)
                  ELSE ParseElements(toks, 2, <<>>)
         IN  IF r.ok /\ r.next = Len(toks) + 1 THEN r ELSE JsonFail

----------------------------------------------------------------------------
(* cli.py: names and tags.                                                 *)

ALEXA == <<"A", "l", "e", "x", "a">>

\* str.replace(" ", "-")
ReplaceSpaces(s) == [i \in DOMAIN s |-> IF s[i] = " " THEN "-" ELSE s[i]]

\* A _tag that forgets lower().
TagKeepCase(name) == ReplaceSpaces(name)

\* _tag, lines 85-88
Tag(name) == ReplaceSpaces(Lower(name))

\* A test of line 94 with `or` for `and`: every unnamed device, and every
\* device at ALEXA_IP, is Alexa.
GetDeviceNameOr(device) ==
    LET name == Name(device)
    IN  IF name = DEVICE_UNKNOWN \/ Address(device) = ALEXA_IP THEN ALEXA ELSE name

\* _get_device_name, lines 91-97
GetDeviceName(device) ==
    LET name == Name(device)
    IN  IF name = DEVICE_UNKNOWN /\ Address(device) = ALEXA_IP THEN ALEXA ELSE name

----------------------------------------------------------------------------
(* cli.py: one run of the command line interface, up to the return of      *)
(* _get_registered_devices.  pc is the place of the run:                   *)
(*   "cli"            _cli, before the dispatch of lines 164-173           *)
(*   "cli_update"     _update_registry called at line 165                  *)
(*   "get"            _get_registered_devices, before the call of line 118 *)
(*   "load_registry"  _load_registry, before the test of line 78           *)
(*   "load_update"    _update_registry called at line 79                   *)
(*   "read"           _load_registry, before lines 81-82                   *)
(*   "construct"      the loop of lines 103-110, at record idx             *)
(*   "recover"        _update_registry called at line 123                  *)
(*   "retry"          before the call of line 125                          *)
(*   "done"           _get_registered_devices has returned regDevices      *)
(*   "found"          lines 178-184: the name looked up last has a device  *)
(*   "not_found"      lines 180-182: the name looked up last has none      *)
(*   "fatal"          an exception has left the run                        *)

UpdatePcs == {"cli_update", "load_update", "recover"}
LoadPcs == {"load_registry", "load_update", "read", "construct"}

\* An exception e is raised at pc: the handler of line 121 catches what the
\* call of line 118 raises, anything else leaves the run.  The locals of the
\* load die with it.
Raise(e) ==
    /\ registry' = <<>>
    /\ idx' = 0
    /\ regDevices' = EmptyDict
    /\ built' = <<>>
    /\ IF pc \in LoadPcs /\ attempt = 1
       THEN /\ pc' = "recover"
            /\ caught' = e
            /\ log' = Append(log, "caught")
            /\ UNCHANGED failure
       ELSE /\ pc' = "fatal"
            /\ failure' = e
            /\ UNCHANGED <<caught, log>>

\* _cli, lines 164-173: a scan command updates the registry first; every
\* command then gets the registered devices.
CliDispatch(scan) ==
    /\ pc = "cli"
    /\ pc' = IF scan THEN "cli_update" ELSE "get"
    /\ UNCHANGED <<file, attempt, registry, idx, regDevices, built, log, caught,
                   failure, scanVars, devVars>>

\* _update_registry, line 71: discover() is called.
UpdateRegistryCall ==
    /\ pc \in UpdatePcs
    /\ scanPc = "idle"
    /\ scanPc' = "call"
    /\ UNCHANGED <<received, devices, scanErr, devVars, cliVars>>

\* _update_registry, lines 72-73: discover() has returned and its result
\* is written; open() raises for a file this user may not open.
UpdateRegistryWrite ==
    /\ pc \in UpdatePcs
    /\ scanPc = "returned"
    /\ scanPc' = "idle"
    /\ IF file.mode = "locked"
       THEN /\ Raise(Exception("PermissionError", "write", "<n/a>"))
            /\ UNCHANGED file
       ELSE /\ file' = [mode |-> "rw", text |-> Dumps(devices)]
            /\ log' = Append(log, "write")
            /\ pc' = CASE pc = "cli_update" -> "get"
                       [] pc = "load_update" -> "read"
                       [] pc = "recover" -> "retry"
            /\ UNCHANGED <<registry, idx, regDevices, built, caught, failure>>
    /\ UNCHANGED <<attempt, received, devices, scanErr, devVars>>

\* _update_registry, line 71: discover() has raised; nothing is written.
UpdateRegistryRaise ==
    /\ pc \in UpdatePcs
    /\ scanPc = "raised"
    /\ scanPc' = "idle"
    /\ Raise(Exception(scanErr.exc, "discover", "<n/a>"))
    /\ UNCHANGED <<file, attempt, received, devices, scanErr, devVars>>

\* _get_registered_devices, lines 118 and 125: _load_registered_devices is
\* called, for the first or for the second time.
LoadRegisteredDevicesCall ==
    /\ pc \in {"get", "retry"}
    /\ attempt' = IF pc = "get" THEN 1 ELSE 2
    /\ log' = Append(log, "load")
    /\ pc' = "load_registry"
    /\ UNCHANGED <<file, registry, idx, regDevices, built, caught, failure,
                   scanVars, devVars>>

\* A _load_registry without lines 78-79: open() raises for a missing file.
LoadRegistryNoUpdate ==
    /\ pc = "load_registry"
    /\ IF file = NoFile
       THEN Raise(Exception("FileNotFoundError", "read", "<n/a>"))
       ELSE /\ pc' = "read"
            /\ UNCHANGED <<registry, idx, regDevices, built, log, caught, failure>>
    /\ UNCHANGED <<file, attempt, scanVars, devVars>>

\* _load_registry, lines 78-79: a missing file is made by a scan.
LoadRegistryExists ==
    /\ pc = "load_registry"
    /\ pc' = IF file = NoFile THEN "load_update" ELSE "read"
    /\ UNCHANGED <<file, attempt, registry, idx, regDevices, built, log, caught,
                   failure, scanVars, devVars>>

\* _load_registry, lines 81-82, and line 102: the file is read and parsed.
LoadRegistryRead ==
    /\ pc = "read"
    /\ IF file.mode = "locked"
       THEN Raise(Exception("PermissionError", "read", "<n/a>"))
       ELSE LET r == Loads(file.text)
            IN  IF ~r.ok
                THEN Raise(Exception("JSONDecodeError", "read", "<n/a>"))
                ELSE /\ registry' = r.value
                     /\ idx' = 1
                     /\ regDevices' = EmptyDict
                     /\ built' = <<>>
                     /\ pc' = "construct"
                     /\ UNCHANGED <<log, caught, failure>>
    /\ UNCHANGED <<file, attempt, scanVars, devVars>>

\* _load_registered_devices, lines 103-110: the device of record idx is
\* constructed, its description fetch ending as `fetch`, and put under its tag.
LoadDevice(fetch) ==
    /\ pc = "construct"
    /\ idx <= Len(registry)
    /\ LET data == registry[idx]
           address == IF "host" \in DOMAIN data THEN data["host"] ELSE "unknown"
       IN  IF "uri" \notin DOMAIN data
           THEN Raise(Exception("KeyError", "uri", "<n/a>"))
           ELSE LET r == WemoDevice(address, data["uri"], fetch)
                    name == GetDeviceName(r.value)
                IN  IF r.exc # "none"
                    THEN Raise(Exception(r.exc, "WemoDevice", data["uri"]))
                    ELSE IF name = PyNone
                    THEN Raise(Exception("AttributeError", "_tag", data["uri"]))
                    ELSE /\ regDevices' = Put(regDevices, Join(Tag(name)), r.value)
                         /\ built' = Append(built, r.value)
                         /\ idx' = idx + 1
                         /\ UNCHANGED <<pc, registry, log, caught, failure>>
    /\ UNCHANGED <<file, attempt, scanVars, devVars>>

\* _load_registered_devices, line 112, and lines 118 and 125: the dict is
\* returned to the caller of _get_registered_devices.
LoadReturn ==
    /\ pc = "construct"
    /\ idx > Len(registry)
    /\ pc' = "done"
    /\ UNCHANGED <<file, attempt, registry, idx, regDevices, built, log, caught,
                   failure, scanVars, devVars>>

\* The device names of a command line: _cli, line 161.
DeviceNames ==
    { LabPlug,
      <<"L", "A", "B", " ", "P", "L", "U", "G">>,
      <<"l", "a", "b", "-", "p", "l", "u", "g">>,
      <<"u", "n", "k", "n", "o", "w", "n", " ", "d", "e", "v", "i", "c", "e">>,
      <<"L", "a", "b">> }

\* _cli, lines 178-184, a turn of the loop over the names of a command
\* that is no scan and no list: the tag of name k is looked up in the dict
\* that _get_registered_devices returned; `wemo` is the device found.  No
\* turn changes the dict, so the turns of a run are alike: the run of the
\* model makes one.
CliLookup(k) ==
    /\ pc = "done"
    /\ Head(log) = "load"
    /\ LET tag == Tag(k)
       IN  /\ ret' = Call("lookup", Join(k), Join(tag), HttpFailure("none"),
                          Returned(tag))
           /\ IF Join(tag) \in DOMAIN regDevices
              THEN /\ handle' = regDevices[Join(tag)]
                   /\ pc' = "found"
              ELSE /\ pc' = "not_found"
                   /\ UNCHANGED handle
    /\ UNCHANGED <<plug, sent, requests, scanVars, file, attempt, registry, idx,
                   regDevices, built, log, caught, failure>>

(* The replies the scans of a run receive, and the registry files a run    *)
(* may find: none, one an earlier scan has written, one cut short, an      *)
(* empty one, one edited by hand, one this user may not open.              *)

Replies ==
    { [addr |-> <<Addr1, "1900">>, data |-> PlainReply(UriPlug1)],
      [addr |-> <<ALEXA_IP, "1900">>, data |-> PaddedReply(UriPlug2)],
      [addr |-> <<Addr1, "1900">>, data |-> NoLocationReply] }

RECURSIVE ScanResults(_)
ScanResults(n) ==
    IF n = 0 THEN { <<>> }
    ELSE LET shorter == ScanResults(n - 1)
         IN  shorter \cup
             { Append(l, Info(d.addr[1], d.data)) : l \in shorter, d \in Replies }

LockedFile == [mode |-> "locked", text |-> <<>>]

InitialFiles ==
    { NoFile, LockedFile,
      [mode |-> "rw", text |-> <<>>],
      [mode |-> "rw", text |-> <<"[", "{", "host", ":", Addr1>>],
      [mode |-> "rw", text |-> <<"[", "{", "uri", ":", UriPlug1, "}", "]">>] }
        \cup { [mode |-> "rw", text |-> Dumps(l)] : l \in ScanResults(MaxDatagrams) }

Init ==
    /\ ScanIdle
    /\ DeviceIdle
    /\ file \in InitialFiles
    /\ pc = "cli"
    /\ attempt = 0
    /\ registry = <<>>
    /\ idx = 0
    /\ regDevices = EmptyDict
    /\ built = <<>>
    /\ log = <<>>
    /\ caught = NoException
    /\ failure = NoException

Next ==
    \/ \E scan \in BOOLEAN : CliDispatch(scan)
    \/ UpdateRegistryCall
    \/ ScanStart
    \/ ScanSendFails
    \/ \E d \in Replies : ScanRecv(d)
    \/ ScanTimeout
    \/ ScanSocketError
    \/ UpdateRegistryWrite
    \/ UpdateRegistryRaise
    \/ LoadRegisteredDevicesCall
    \/ LoadRegistryExists
    \/ LoadRegistryRead
    \/ \E fetch \in FetchOutcomes : LoadDevice(fetch)
    \/ LoadReturn
    \/ \E k \in DeviceNames : CliLookup(k)

Spec == Init /\ [][Next]_vars

----------------------------------------------------------------------------
(* Properties.                                                             *)

MalformedUris == { "", UriNoScheme, UriBadPort }
FetchableUris == { UriPlug1, UriPlug2 }

BinaryStates == { STATE_ON, STATE_OFF, STATE_UNKNOWN }

\* Whether the token sequence s holds the tokens of part, in a row.
Contains(s, part) ==
    \E i \in 0..Len(s) :
        /\ i + Len(part) <= Len(s)
        /\ SubSeq(s, i + 1, i + Len(part)) = part

\* C1: constructing a handle with an empty or malformed description URI
\* succeeds without raising, whatever the fetch would have answered: the
\* handle exists, keeps its address and URI, has an empty descriptor and
\* name() is "Unknown Device".
C1_MalformedUriConstructs ==
    (ret.op = "new" /\ ret.uri \in MalformedUris) =>
        /\ ret.exc = "none"
        /\ handle # NoHandle
        /\ Address(handle) = ret.addr
        /\ handle.uri = ret.uri
        /\ handle.data = EmptyDict
        /\ Name(handle) = DEVICE_UNKNOWN

\* C2: a description fetch that ends in a network failure or in malformed
\* XML leaves the descriptor empty and raises nothing to the caller of the
\* constructor.
C2_FailedFetchConstructs ==
    (/\ ret.op = "new"
     /\ ret.uri \in FetchableUris
     /\ ret.env \in HttpFailures \cup {HttpBody(MalformedXml)}) =>
        /\ ret.exc = "none"
        /\ handle # NoHandle
        /\ handle.data = EmptyDict

\* C3: on() and off() never raise on a transport error, a timeout, malformed
\* XML or a set response without a BinaryState element: each of these yields
\* UNKNOWN.
C3_SetStateNeverRaises ==
    (/\ ret.op \in {"on", "off"}
     /\ ret.env \in HttpFailures
            \cup { HttpBody(MalformedXml),
                   HttpBody(AnswerWithoutState(WEMO_SET_STATE_PATH)) }) =>
        /\ ret.exc = "none"
        /\ ret.value = STATE_UNKNOWN

\* C4: on() sends a body that holds <BinaryState>1</BinaryState> and returns
\* ON when the device echoes "1" in a well-formed SetBinaryStateResponse,
\* off() sends 0 and returns OFF on an echoed "0"; what either returns is one
\* of ON, OFF, UNKNOWN.
C4_SetStateEchoesBinaryState ==
    /\ ret.op = "on" =>
          /\ Contains(sent.data, <<"<BinaryState>", "1", "</BinaryState>">>)
          /\ ret.env = HttpBody(Answer(WEMO_SET_STATE_PATH, <<"1">>)) =>
                (ret.exc = "none" /\ ret.value = STATE_ON)
    /\ ret.op = "off" =>
          /\ Contains(sent.data, <<"<BinaryState>", "0", "</BinaryState>">>)
          /\ ret.env = HttpBody(Answer(WEMO_SET_STATE_PATH, <<"0">>)) =>
                (ret.exc = "none" /\ ret.value = STATE_OFF)
    /\ (ret.op \in {"on", "off"} /\ ret.exc = "none") => ret.value \in BinaryStates

\* C5: state() never raises; it returns ON exactly when the response is a
\* well-formed GetBinaryStateResponse whose BinaryState text is "1", OFF
\* exactly when that text is "0", and UNKNOWN for any other text, a missing
\* element, a failed or timed-out request and malformed XML.
C5_StateMapsBinaryState ==
    ret.op = "state" =>
        /\ ret.exc = "none"
        /\ ret.value =
              IF ret.env = HttpBody(Answer(WEMO_GET_STATE_PATH, <<"1">>)) THEN STATE_ON
              ELSE IF ret.env = HttpBody(Answer(WEMO_GET_STATE_PATH, <<"0">>)) THEN STATE_OFF
              ELSE STATE_UNKNOWN

\* C5, its case: after an earlier request, a state() call answered "1" has
\* returned ON.
C5_Witness ==
    /\ ret.op = "state"
    /\ ret.env = HttpBody(Answer(WEMO_GET_STATE_PATH, <<"1">>))
    /\ ret.value = STATE_ON
    /\ requests > 1

\* The calls the run made after the handler of line 121 was entered.
AfterCaught ==
    LET i == CHOOSE k \in DOMAIN log : log[k] = "caught"
    IN  SubSeq(log, i + 1, Len(log))

\* C6: a discovery result that was persisted reloads into one handle per
\* record with a non-empty description URI, each with the record's address
\* and URI; a record with an empty URI is dropped and fails no load.
C6_ReloadRoundTrip ==
    /\ \A l \in ScanResults(MaxDatagrams) :
          (file = [mode |-> "rw", text |-> Dumps(l)] /\ pc = "done") =>
              LET kept == SelectSeq(l, LAMBDA r : r.uri # "")
              IN  /\ Cardinality(DOMAIN regDevices) = Len(kept)
                  /\ \A i \in DOMAIN kept :
                        \E t \in DOMAIN regDevices :
                            /\ Address(regDevices[t]) = kept[i].host
                            /\ regDevices[t].uri = kept[i].uri
    /\ \A e \in {caught, failure} : ~(e.at = "WemoDevice" /\ e.uri = "")

\* C7: once a load of the registered devices has failed, the run makes
\* exactly one scan, which rewrites the registry, and exactly one more load,
\* whether that load returns or its failure leaves the run.
C7_RecoverOnce ==
    (pc \in {"done", "fatal"} /\ caught # NoException) =>
        AfterCaught = <<"scan", "write", "load">>

\* C8: a step of the receive loop that ends it without a datagram, a receive
\* timeout or a socket error, makes discover() return, with the records
\* collected so far.
C8_SocketErrorEndsScan ==
    [][(scanPc = "recv" /\ scanPc' # "recv" /\ received' = received) =>
          (scanPc' = "returned" /\ devices' = devices)]_vars

FirstLocation(text) ==
    LET lines == Split(text)
        hits == { i \in DOMAIN lines : Matcher(lines[i]).matched }
    IN  IF hits = {} THEN ""
        ELSE LET first == CHOOSE i \in hits : \A j \in hits : i <= j
             IN  Join(Strip(SubSeq(lines[first], Matcher(lines[first]).end + 1,
                                   Len(lines[first]))))

\* C10: the description URI of a record is the trimmed value of the first
\* line of its datagram that matches the Location header, and the empty
\* string when no line matches.
C10_FirstLocationWins ==
    scanPc \in {"recv", "returned"} =>
        \A i \in DOMAIN devices : devices[i].uri = FirstLocation(received[i].data)

DeviceAnswer == HttpBody(Answer(WEMO_GET_STATE_PATH, plug))

\* C12: whatever calls and switches came before, a state() that the device
\* answers with its state returns ON exactly when the device is on and OFF
\* exactly when it is off, and the handle is what it was: nothing of the
\* call is kept in it.
C12_StateIsLive ==
    [][(ret'.op = "state" /\ requests' = requests + 1 /\ ret'.env = DeviceAnswer) =>
          /\ ret'.exc = "none"
          /\ ret'.value = STATE_ON <=> plug = <<"1">>
          /\ ret'.value = STATE_OFF <=> plug = <<"0">>
          /\ handle' = handle]_vars

\* C12, its case: the device, off when the handle was made, is on now, and
\* the last of MaxCalls calls, a state() the device answered, returned ON.
C12_Witness ==
    /\ ret.op = "state"
    /\ ret.env = DeviceAnswer
    /\ ret.value = STATE_ON
    /\ plug = <<"1">>
    /\ requests = MaxCalls

\* The calls that talk to the device.
ControlCalls == {"state", "on", "off"}

\* C13: a step in which state(), on() or off() is called sends one request,
\* to the control endpoint of the handle, whether the request fails or is
\* answered; no step changes a field of a handle once it is constructed.
C13_OneRequestPerCall ==
    [][/\ (requests' # requests \/ sent' # sent
            \/ (ret' # ret /\ ret'.op \in ControlCalls)) =>
              /\ ret'.op \in ControlCalls
              /\ requests' = requests + 1
              /\ sent'.uri = handle.control_uri
              /\ LET earl == UrlParse(handle.uri)
                 IN  sent'.uri = earl.scheme \o "://" \o earl.hostname \o ":"
                                   \o earl.port \o "/" \o CONTROL_URI_PATH
       /\ handle # NoHandle => handle' = handle]_vars

\* C13, its case: the one call made on a handle, an off(), has failed in
\* transport after one request to the control endpoint.
C13_Witness ==
    /\ ret.op = "off"
    /\ ret.env \in HttpFailures
    /\ ret.exc # "none"
    /\ requests = 1
    /\ sent.uri = handle.control_uri

\* The handles of the load in progress whose descriptor has no friendlyName.
Unnamed == { i \in DOMAIN built : DATA_DICT_NAME_KEY \notin DOMAIN built[i].data }

\* C14 as claimed: whatever its address, a device whose descriptor has no
\* friendlyName has the display name "Unknown Device" and is in the lookup
\* map under the tag "unknown-device".
C14_UnnamedIsUnknownDevice ==
    \A i \in Unnamed :
        /\ GetDeviceName(built[i]) = DEVICE_UNKNOWN
        /\ "unknown-device" \in DOMAIN regDevices
        /\ Name(regDevices["unknown-device"]) = DEVICE_UNKNOWN

\* C14 as amended: a device whose descriptor has no friendlyName has the
\* display name "Unknown Device" and is in the lookup map under the tag
\* "unknown-device" when its address is not ALEXA_IP; at ALEXA_IP its
\* display name is "Alexa" and its tag "alexa".  Its name() is "Unknown
\* Device" at every address.
C14_UnnamedIsUnknownDeviceOrAlexa ==
    \A i \in Unnamed :
        /\ Name(built[i]) = DEVICE_UNKNOWN
        /\ IF Address(built[i]) = ALEXA_IP
           THEN /\ GetDeviceName(built[i]) = ALEXA
                /\ "alexa" \in DOMAIN regDevices
           ELSE /\ GetDeviceName(built[i]) = DEVICE_UNKNOWN
                /\ "unknown-device" \in DOMAIN regDevices
                /\ Name(regDevices["unknown-device"]) = DEVICE_UNKNOWN

\* C14, its case: a load has returned a map that holds an unnamed device at
\* Addr1 and an unnamed device at ALEXA_IP.
C14_Witness ==
    /\ pc = "done"
    /\ \E i, j \in Unnamed :
          /\ Address(built[i]) = Addr1
          /\ Address(built[j]) = ALEXA_IP
    /\ DOMAIN regDevices = {"unknown-device", "alexa"}

\* The devices of the load whose registered tag is t.
Registered(t) == { i \in DOMAIN built : Tag(GetDeviceName(built[i])) = t }

\* C15: the tag of a name looked up is the name, each letter in lower case
\* and each space a hyphen; names that differ in letter case only have one
\* tag; the tag of a tag is the tag; and a name is found exactly when its tag
\* is the tag some device of the load was registered under, the device found
\* being one registered under it.
C15_TagNormalization ==
    \A k \in DeviceNames :
        (ret.op = "lookup" /\ ret.addr = Join(k)) =>
            /\ Len(ret.value) = Len(k)
            /\ \A i \in DOMAIN k :
                  ret.value[i] = IF k[i] = " " THEN "-" ELSE LowerChar(k[i])
            /\ \A n \in DeviceNames : Lower(n) = Lower(k) => Tag(n) = ret.value
            /\ Tag(ret.value) = ret.value
            /\ pc = "found" <=> Registered(ret.value) # {}
            /\ pc = "found" => \E i \in Registered(ret.value) : handle = built[i]

\* C15, its case: "LAB PLUG" has been looked up and has found the device
\* that was registered as "Lab Plug".
C15_Witness ==
    /\ pc = "found"
    /\ ret.addr = "LAB PLUG"
    /\ ret.uri = "lab-plug"
    /\ Name(handle) = LabPlug

SetFallback ==
    SetDeviceState("", 1, HttpBody(AnswerWithoutState(WEMO_SET_STATE_PATH))).value

\* C17: state() returns UNKNOWN for a response whose BinaryState is under
\* SetBinaryStateResponse, whatever its text; on() and off() return what
\* they return without a BinaryState element for a response whose
\* BinaryState is under GetBinaryStateResponse, and never its text.
C17_OwnResponseElement ==
    /\ (/\ ret.op = "state"
         /\ \E t \in StateTexts : ret.env = HttpBody(Answer(WEMO_SET_STATE_PATH, t))) =>
            (ret.exc = "none" /\ ret.value = STATE_UNKNOWN)
    /\ (/\ ret.op \in {"on", "off"}
         /\ \E t \in StateTexts : ret.env = HttpBody(Answer(WEMO_GET_STATE_PATH, t))) =>
            (ret.exc = "none" /\ ret.value = SetFallback /\ SetFallback = PyNone)

\* C17, its case: state() has been answered with a SetBinaryStateResponse
\* that says "1" and has returned UNKNOWN.
C17_Witness ==
    /\ ret.op = "state"
    /\ ret.env = HttpBody(Answer(WEMO_SET_STATE_PATH, <<"1">>))
    /\ ret.value = STATE_UNKNOWN

\* The tag a handle of the load is registered under: lines 108-109.
TagOf(device) == Join(Tag(GetDeviceName(device)))

\* C18: the keys of the lookup map are the tags of the handles the load has
\* constructed, in number no more than the handles and the records; each
\* tag leads to the handle of the last record that resolved to it.
C18_OneHandlePerTag ==
    /\ DOMAIN regDevices = { TagOf(built[i]) : i \in DOMAIN built }
    /\ Cardinality(DOMAIN regDevices) <= Len(built)
    /\ Len(built) <= Len(registry)
    /\ \A i \in DOMAIN built :
          (\A j \in DOMAIN built : TagOf(built[j]) = TagOf(built[i]) => j <= i) =>
              regDevices[TagOf(built[i])] = built[i]

\* C18, its case: a load has returned one handle for two records that
\* resolved to one tag, the handle of the second.
C18_Witness ==
    /\ pc = "done"
    /\ Len(built) = 2
    /\ TagOf(built[1]) = TagOf(built[2])
    /\ built[1] # built[2]
    /\ Cardinality(DOMAIN regDevices) = 1
    /\ regDevices[TagOf(built[2])] = built[2]

\* The calls a run has made since _get_registered_devices was entered.
CallLog ==
    IF \E i \in DOMAIN log : log[i] = "load"
    THEN LET first == CHOOSE i \in DOMAIN log :
                         log[i] = "load" /\ \A j \in 1..(i - 1) : log[j] # "load"
         IN  SubSeq(log, first, Len(log))
    ELSE <<>>

Count(s, x) == Cardinality({ i \in DOMAIN s : s[i] = x })

\* C19: a load that finds no registry file goes on to a scan of its own,
\* with nothing caught and no new attempt, and reads only after that scan's
\* result is written; one call of _get_registered_devices scans at most
\* twice and loads at most twice; and a step that changes the file writes
\* the list that a scan has returned.
C19_MissingFileIsNoFailure ==
    /\ [][(pc = "load_registry" /\ file = NoFile) =>
             /\ pc' = "load_update"
             /\ caught' = caught
             /\ log' = log
             /\ attempt' = attempt]_vars
    /\ [][(pc = "load_update" /\ pc' = "read") =>
             /\ file' # file
             /\ file' = [mode |-> "rw", text |-> Dumps(devices)]]_vars
    /\ [][file' # file =>
             /\ scanPc = "returned"
             /\ file' = [mode |-> "rw", text |-> Dumps(devices)]]_vars
    /\ [](Count(CallLog, "scan") <= 2 /\ Count(CallLog, "load") <= 2)

\* C19, its case: the run found no file, its first load scanned, wrote and
\* failed, the recovery scanned and wrote again, and the second load
\* returned.
C19_Witness ==
    /\ pc = "done"
    /\ log = <<"load", "scan", "write", "caught", "scan", "write", "load">>

====
